---- MODULE Spec2Model ----
(***************************************************************************)
(* Model of MCP-Agent/AgentCore/agent_core.py: main(), the agent loop.     *)
(*                                                                         *)
(* The program is one thread of control.  Its state is the position of     *)
(* that thread (pc, named after the source line about to run), the         *)
(* simulated clock, the records handed to the logger, the lines printed,   *)
(* and the calls made to time.sleep.  The environment supplies, for every  *)
(* call the program makes, the outcome of the call: it returns, or it      *)
(* raises.  A KeyboardInterrupt (the cancellation signal) can be raised    *)
(* out of any call, before or after the call has had its effect, and at    *)
(* the loop's back edge, where the interpreter looks for pending signals   *)
(* between two iterations; an ordinary error (a subclass of Exception)     *)
(* stands for a failure of the tick's work, which the source places inside *)
(* the try body (comment at lines 21-22).                                  *)
(***************************************************************************)
EXTENDS Integers, Sequences, FiniteSets

VARIABLES pc, now, tick, log, stdout, sleeps, cancels, faults, caught, exc

vars == <<pc, now, tick, log, stdout, sleeps, cancels, faults, caught, exc>>

(* ---- bounds ---- *)
\* simulated seconds after which no further sleep is begun
MaxTime == 35

(* ---- program constants ---- *)
\* time.sleep(10), line 23
IntervalSeconds == 10
\* time.sleep(5), line 31
ErrorBackoffSeconds == 5

(* ---- exceptions ---- *)
KeyboardInterrupt == "KeyboardInterrupt"

\* the errors a tick's work is taken to fail with
Errors == {"ValueError", "OSError"}

\* everything a call inside the try body can raise
Raisable == {KeyboardInterrupt} \cup Errors

\* Python's built-in hierarchy: the direct base class of each exception
BaseOf(k) ==
  CASE k = "ValueError" -> "Exception"
    [] k = "OSError" -> "Exception"
    [] k = "Exception" -> "BaseException"
    [] k = KeyboardInterrupt -> "BaseException"
    [] OTHER -> "object"

\* isinstance(k(), c) for the classes above
IsInstance(k, c) ==
  \/ k = c
  \/ BaseOf(k) = c
  \/ BaseOf(BaseOf(k)) = c

\* a mis-written second clause that catches only ValueError
ExceptClauseNarrow(k) ==
  IF IsInstance(k, KeyboardInterrupt) THEN "L27"
  ELSE IF IsInstance(k, "ValueError") THEN "L30"
  ELSE "raised"

\* the try statement without its except KeyboardInterrupt clause
ExceptClauseNoKI(k) ==
  IF IsInstance(k, "Exception") THEN "L30"
  ELSE "raised"

\* errors swallowed inside the body, so that the heartbeat is logged anyway
ExceptClauseSwallow(k) ==
  IF IsInstance(k, KeyboardInterrupt) THEN "L27"
  ELSE IF IsInstance(k, "Exception") THEN "L24"
  ELSE "raised"

\* one bare except clause that treats every exception as a tick error
ExceptClauseBare(k) ==
  IF IsInstance(k, "BaseException") THEN "L30"
  ELSE "raised"

\* the except clauses of the try statement (lines 26 and 29), in order:
\* where control goes when k is raised inside the try body
ExceptClause(k) ==
  IF IsInstance(k, KeyboardInterrupt) THEN "L27"
  ELSE IF IsInstance(k, "Exception") THEN "L30"
  ELSE "raised"

(* ---- records ---- *)
\* one record handed to the logger
\* (event, level, the exception formatted into the message, time, iteration)
Record(ev, level, e) ==
  [ev |-> ev, level |-> level, e |-> e, at |-> now, tick |-> tick]

\* one call of time.sleep: the requested seconds, when it began and how it
\* ended ("completed" or the exception it raised)
SleepCall(secs, end) ==
  [secs |-> secs, start |-> now, end |-> end]

\* one delivery of the cancellation signal: when, and in which call
Cancel(at, during) == [at |-> at, during |-> during]

\* the moments at which a sleep of secs seconds can be cut short
Elapsed(secs) == 0 .. (secs - 1)

Terminal == {"returned", "raised"}

\* a loop whose body begins with the start-up logging
LoopHeadAtStart == "L15"

\* line 19, while True: the end of an iteration jumps back to the loop
\* head, which lies outside the try statement of line 20
LoopHead == "L19"

\* continue in place of break
BreakTargetContinue == "L23"

\* line 28, break: control leaves the loop, and main, having nothing after
\* the loop, returns
BreakTarget == "returned"

Init ==
  /\ pc = "L15"
  /\ now = 0
  /\ tick = 0
  /\ log = << >>
  /\ stdout = << >>
  /\ sleeps = << >>
  /\ cancels = << >>
  /\ faults = 0
  /\ caught = "none"
  /\ exc = "none"

(* ---- building blocks ---- *)
\* a raise that no clause of main handles: the exception leaves main
Propagate(k) ==
  /\ pc' = "raised"
  /\ exc' = k

\* a raise of k inside the try body at line `line`, d seconds from now
RaiseInTry(k, line, d) ==
  /\ pc' = ExceptClause(k)
  /\ exc' = IF ExceptClause(k) = "raised" THEN k ELSE exc
  /\ caught' = IF ExceptClause(k) = "L30" THEN k ELSE caught
  /\ cancels' = IF k = KeyboardInterrupt
                THEN Append(cancels, Cancel(now + d, line)) ELSE cancels
  /\ faults' = IF k \in Errors THEN faults + 1 ELSE faults

(* ---- line 15: logger.info("Agent Core started") ---- *)
LogStarted ==
  /\ pc = "L15"
  /\ \/ /\ log' = Append(log, Record("started", "INFO", "none"))
        /\ pc' = "L16"
        /\ UNCHANGED <<cancels, exc>>
     \/ \E emitted \in BOOLEAN :
        /\ log' = IF emitted THEN Append(log, Record("started", "INFO", "none")) ELSE log
        /\ cancels' = Append(cancels, Cancel(now, "L15"))
        /\ Propagate(KeyboardInterrupt)
  /\ UNCHANGED <<now, tick, stdout, sleeps, faults, caught>>

(* ---- line 16: print("Agent Core started") ---- *)
PrintStarted ==
  /\ pc = "L16"
  /\ \/ /\ stdout' = Append(stdout, "Agent Core started")
        /\ pc' = "L23"
        /\ UNCHANGED <<cancels, exc>>
     \/ \E emitted \in BOOLEAN :
        /\ stdout' = IF emitted THEN Append(stdout, "Agent Core started") ELSE stdout
        /\ cancels' = Append(cancels, Cancel(now, "L16"))
        /\ Propagate(KeyboardInterrupt)
  /\ UNCHANGED <<now, tick, log, sleeps, faults, caught>>

(* ---- line 19: while True, reached by the jump back from the end of an
        iteration; a signal pending here is raised outside the try ---- *)
BackEdge ==
  /\ pc = "L19"
  /\ \/ /\ pc' = "L23"
        /\ UNCHANGED <<cancels, exc>>
     \/ /\ cancels' = Append(cancels, Cancel(now, "L19"))
        /\ Propagate(KeyboardInterrupt)
  /\ UNCHANGED <<now, tick, log, stdout, sleeps, faults, caught>>

(* ---- line 23: time.sleep(10), first statement of the try body ---- *)
IntervalSleep ==
  /\ pc = "L23"
  /\ now + IntervalSeconds <= MaxTime
  /\ tick' = tick + 1
  /\ \/ /\ now' = now + IntervalSeconds
        /\ sleeps' = Append(sleeps, SleepCall(IntervalSeconds, "completed"))
        /\ pc' = "L24"
        /\ UNCHANGED <<cancels, faults, caught, exc>>
     \/ \E k \in Raisable, d \in Elapsed(IntervalSeconds) :
        /\ now' = now + d
        /\ sleeps' = Append(sleeps, SleepCall(IntervalSeconds, k))
        /\ RaiseInTry(k, "L23", d)
     \/ /\ now' = now + IntervalSeconds
        /\ sleeps' = Append(sleeps, SleepCall(IntervalSeconds, "completed"))
        /\ RaiseInTry(KeyboardInterrupt, "L23", IntervalSeconds)
  /\ UNCHANGED <<log, stdout>>

(* ---- line 24: logger.info("Agent heartbeat"), still in the try body ---- *)
LogHeartbeat ==
  /\ pc = "L24"
  /\ \/ /\ log' = Append(log, Record("heartbeat", "INFO", "none"))
        /\ pc' = LoopHead
        /\ UNCHANGED <<cancels, faults, caught, exc>>
     \/ \E emitted \in BOOLEAN :
        /\ log' = IF emitted THEN Append(log, Record("heartbeat", "INFO", "none")) ELSE log
        /\ RaiseInTry(KeyboardInterrupt, "L24", 0)
     \/ \E k \in Errors :
        /\ log' = log
        /\ RaiseInTry(k, "L24", 0)
  /\ UNCHANGED <<now, tick, stdout, sleeps>>

(* ---- lines 26-28: except KeyboardInterrupt: log "Agent stopping"; break ---- *)
StopHandler ==
  /\ pc = "L27"
  /\ \/ /\ log' = Append(log, Record("stopping", "INFO", "none"))
        /\ pc' = BreakTarget
        /\ UNCHANGED <<cancels, exc>>
     \/ \E emitted \in BOOLEAN :
        /\ log' = IF emitted THEN Append(log, Record("stopping", "INFO", "none")) ELSE log
        /\ cancels' = Append(cancels, Cancel(now, "L27"))
        /\ Propagate(KeyboardInterrupt)
  /\ UNCHANGED <<now, tick, stdout, sleeps, faults, caught>>

\* an error handler that logs and continues without the backoff
LogErrorNoBackoff ==
  /\ pc = "L30"
  /\ \/ /\ log' = Append(log, Record("error", "ERROR", caught))
        /\ pc' = LoopHead
        /\ UNCHANGED <<cancels, exc>>
     \/ \E emitted \in BOOLEAN :
        /\ log' = IF emitted THEN Append(log, Record("error", "ERROR", caught)) ELSE log
        /\ cancels' = Append(cancels, Cancel(now, "L30"))
        /\ Propagate(KeyboardInterrupt)
  /\ UNCHANGED <<now, tick, stdout, sleeps, faults, caught>>

(* ---- lines 29-30: except Exception as e: logger.error(...) ---- *)
LogError ==
  /\ pc = "L30"
  /\ \/ /\ log' = Append(log, Record("error", "ERROR", caught))
        /\ pc' = "L31"
        /\ UNCHANGED <<cancels, exc>>
     \/ \E emitted \in BOOLEAN :
        /\ log' = IF emitted THEN Append(log, Record("error", "ERROR", caught)) ELSE log
        /\ cancels' = Append(cancels, Cancel(now, "L30"))
        /\ Propagate(KeyboardInterrupt)
  /\ UNCHANGED <<now, tick, stdout, sleeps, faults, caught>>

\* a backoff that grows with the number of failures so far
BackoffSleepGrowing ==
  /\ pc = "L31"
  /\ now + ErrorBackoffSeconds * faults <= MaxTime
  /\ \/ /\ now' = now + ErrorBackoffSeconds * faults
        /\ sleeps' = Append(sleeps, SleepCall(ErrorBackoffSeconds * faults, "completed"))
        /\ pc' = LoopHead
        /\ UNCHANGED <<cancels, exc>>
     \/ /\ now' = now + ErrorBackoffSeconds * faults
        /\ sleeps' = Append(sleeps, SleepCall(ErrorBackoffSeconds * faults, "completed"))
        /\ cancels' = Append(cancels, Cancel(now + ErrorBackoffSeconds * faults, "L31"))
        /\ Propagate(KeyboardInterrupt)
     \/ \E d \in Elapsed(ErrorBackoffSeconds * faults) :
        /\ now' = now + d
        /\ sleeps' = Append(sleeps, SleepCall(ErrorBackoffSeconds * faults, KeyboardInterrupt))
        /\ cancels' = Append(cancels, Cancel(now + d, "L31"))
        /\ Propagate(KeyboardInterrupt)
  /\ UNCHANGED <<tick, log, stdout, faults, caught>>

(* ---- line 31: time.sleep(5), inside the except Exception handler ---- *)
BackoffSleep ==
  /\ pc = "L31"
  /\ now + ErrorBackoffSeconds <= MaxTime
  /\ \/ /\ now' = now + ErrorBackoffSeconds
        /\ sleeps' = Append(sleeps, SleepCall(ErrorBackoffSeconds, "completed"))
        /\ pc' = LoopHead
        /\ UNCHANGED <<cancels, exc>>
     \/ /\ now' = now + ErrorBackoffSeconds
        /\ sleeps' = Append(sleeps, SleepCall(ErrorBackoffSeconds, "completed"))
        /\ cancels' = Append(cancels, Cancel(now + ErrorBackoffSeconds, "L31"))
        /\ Propagate(KeyboardInterrupt)
     \/ \E d \in Elapsed(ErrorBackoffSeconds) :
        /\ now' = now + d
        /\ sleeps' = Append(sleeps, SleepCall(ErrorBackoffSeconds, KeyboardInterrupt))
        /\ cancels' = Append(cancels, Cancel(now + d, "L31"))
        /\ Propagate(KeyboardInterrupt)
  /\ UNCHANGED <<tick, log, stdout, faults, caught>>

Next ==
  \/ LogStarted
  \/ PrintStarted
  \/ BackEdge
  \/ IntervalSleep
  \/ LogHeartbeat
  \/ StopHandler
  \/ LogError
  \/ BackoffSleep

Spec == Init /\ [][Next]_vars

(* ---- vocabulary of the properties ---- *)
\* how many records of event ev have been logged
Count(ev) == Cardinality({i \in DOMAIN log : log[i].ev = ev})

\* the logged events in order, without their times
Events == [i \in DOMAIN log |-> log[i].ev]

\* exactly one cancellation was delivered, during a call at the given line
OnlyCancelDuring(line) ==
  /\ Len(cancels) = 1
  /\ cancels[1].during = line

\* the records logged for iteration n of the loop
OfTick(n) == {i \in DOMAIN log : log[i].tick = n /\ log[i].ev # "started"}

(* ---- C1 ---- *)
\* C1: as long as no cancellation has been delivered, N >= 1 consecutive
\* failed ticks (every iteration so far raised an error in the try body)
\* leave main inside the loop with exactly N "error" records (the N-th is
\* being written while control is at line 30) and no "stopping" record.
C1_FailuresNeverTerminate ==
  (cancels = << >> /\ tick >= 1 /\ faults = tick) =>
    /\ pc \in {"L30", "L31", "L19", "L23"}
    /\ pc \notin Terminal
    /\ exc = "none"
    /\ Count("stopping") = 0
    /\ Count("heartbeat") = 0
    /\ Count("error") = IF pc = "L30" THEN tick - 1 ELSE tick

\* three ticks in a row have failed and the loop is about to start a fourth
C1_Witness ==
  /\ cancels = << >>
  /\ faults = 3
  /\ tick = 3
  /\ pc = "L23"
  /\ Count("error") = 3

(* ---- C2 ---- *)
\* C2: a cancellation that arrives during the interval sleep (and is the only
\* one) takes control to the stop handler and from there out of main by a
\* normal return: the interrupted sleep is the last call of time.sleep (cut
\* short, or run in full when the interrupt is raised as the call returns),
\* the interrupted iteration logs no heartbeat, and on return the log ends
\* with the one INFO "stopping" record, stamped with the time of the
\* interrupt.
C2_CancelDuringIntervalSleep ==
  OnlyCancelDuring("L23") =>
    /\ pc \in {"L27", "returned"}
    /\ exc = "none"
    /\ sleeps[Len(sleeps)].end =
         (IF cancels[1].at < sleeps[Len(sleeps)].start + IntervalSeconds
          THEN KeyboardInterrupt ELSE "completed")
    /\ cancels[1].at >= sleeps[Len(sleeps)].start
    /\ cancels[1].at <= sleeps[Len(sleeps)].start + IntervalSeconds
    /\ now = cancels[1].at
    /\ sleeps[Len(sleeps)].secs = IntervalSeconds
    /\ Len(sleeps) = tick + faults
    /\ \A i \in OfTick(tick) : log[i].ev = "stopping"
    /\ Count("stopping") = IF pc = "returned" THEN 1 ELSE 0
    /\ pc = "returned" =>
         /\ log[Len(log)].ev = "stopping"
         /\ log[Len(log)].level = "INFO"
         /\ log[Len(log)].at = cancels[1].at
         /\ log[Len(log)].tick = tick

\* main has returned after two heartbeats and an interrupted third sleep
C2_Witness ==
  /\ OnlyCancelDuring("L23")
  /\ pc = "returned"
  /\ Count("heartbeat") = 2
  /\ Count("stopping") = 1

(* ---- C3 ---- *)
\* C3: a cancellation that arrives during the error backoff sleep is handled
\* like one that arrives during the interval sleep: control goes to the stop
\* handler, a "stopping" record is logged and main returns without raising.
C3_CancelDuringBackoff ==
  OnlyCancelDuring("L31") =>
    /\ pc \in {"L27", "returned"}
    /\ exc = "none"
    /\ pc = "returned" => log[Len(log)].ev = "stopping"

\* the failing run's end: a tick failed, the backoff was interrupted, and the
\* KeyboardInterrupt left main with no "stopping" record
C3_Escapes ==
  /\ OnlyCancelDuring("L31")
  /\ pc = "raised"
  /\ exc = KeyboardInterrupt
  /\ Count("stopping") = 0

(* ---- C4 ---- *)
\* the only cancellation came after the first interval sleep completed and
\* before a second one did, in a run without tick failures
CancelledInSecondTick ==
  /\ faults = 0
  /\ Len(cancels) = 1
  /\ Len(sleeps) \in {1, 2}
  /\ sleeps[1].end = "completed"
  /\ Len(sleeps) = 2 => sleeps[2].end = KeyboardInterrupt

\* C4: with a tick body that succeeds and one cancellation delivered after
\* the first interval sleep has completed and before the second completes,
\* main ends by returning and the whole log is "started", then no or one
\* "heartbeat", then "stopping".
C4_TraceAfterFirstSuspension ==
  (CancelledInSecondTick /\ pc \in Terminal) =>
    /\ pc = "returned"
    /\ \/ Events = <<"started", "stopping">>
       \/ Events = <<"started", "heartbeat", "stopping">>

\* the failing run's end: the first heartbeat was logged, the cancellation
\* was raised at the loop's back edge (line 19), outside the try, and the
\* KeyboardInterrupt left main with no "stopping" record
C4_Escapes ==
  /\ CancelledInSecondTick
  /\ cancels[1].during = "L19"
  /\ pc = "raised"
  /\ exc = KeyboardInterrupt
  /\ Events = <<"started", "heartbeat">>

(* ---- C5 ---- *)
\* C5: with the source's 10 and 5 seconds, no tick failure and the only
\* cancellation delivered at time 25, main returns with the log
\* started, heartbeat at 10, heartbeat at 20, stopping at 25.
C5_ScenarioCancelAt25 ==
  (faults = 0 /\ Len(cancels) = 1 /\ cancels[1].at = 25 /\ pc \in Terminal) =>
    /\ pc = "returned"
    /\ Events = <<"started", "heartbeat", "heartbeat", "stopping">>
    /\ log[2].at = 10
    /\ log[3].at = 20
    /\ log[4].at = 25
    /\ Count("error") = 0

\* the scenario's final state
C5_Witness ==
  /\ faults = 0
  /\ cancels = <<Cancel(25, "L23")>>
  /\ pc = "returned"
  /\ Len(log) = 4
  /\ now = 25

(* ---- C6 ---- *)
\* C6: main ends only after a cancellation has been delivered; what leaves
\* main is a normal return or the KeyboardInterrupt itself, never an error
\* raised by a tick.
C6_TerminatesOnlyOnCancel ==
  pc \in Terminal =>
    /\ cancels # << >>
    /\ exc \notin Errors
    /\ pc = "raised" <=> exc = KeyboardInterrupt
    /\ pc = "returned" <=> exc = "none"

\* main has returned although ticks failed on the way
C6_Witness ==
  /\ pc = "returned"
  /\ faults >= 2
  /\ Count("error") = faults

(* ---- C7 ---- *)
\* C7: once "stopping" is in the log it is the last record, main has ended,
\* no step of the program is possible any more, and every sleep and every
\* other record belongs to an iteration no later than the one that stopped.
C7_StoppedIsTerminal ==
  Count("stopping") >= 1 =>
    /\ log[Len(log)].ev = "stopping"
    /\ Count("stopping") = 1
    /\ pc \in Terminal
    /\ ~ ENABLED Next
    /\ log[Len(log)].tick = tick
    /\ \A i \in DOMAIN sleeps : sleeps[i].start <= log[Len(log)].at

\* stopped after heartbeats and errors were logged
C7_Witness ==
  /\ Count("stopping") = 1
  /\ Count("heartbeat") >= 1
  /\ Count("error") >= 1
  /\ pc = "returned"

(* ---- C8 ---- *)
\* C8: however many cancellations are delivered and wherever, at most one
\* "stopping" record is logged.
C8_AtMostOneStopping ==
  Count("stopping") <= 1

\* two cancellations were delivered and one "stopping" record was logged
C8_Witness ==
  /\ Len(cancels) = 2
  /\ Count("stopping") = 1

(* ---- C10 ---- *)
\* the start-up logging itself was interrupted
StartInterrupted ==
  /\ cancels # << >>
  /\ cancels[1].during = "L15"

\* C10: "started" is logged at most once, it is the first record of any log,
\* it is there (once it has been written at line 15) before the program
\* prints, sleeps or logs anything else, and no iteration logs it again.
C10_StartedOnceAndFirst ==
  /\ Count("started") <= 1
  /\ log # << >> => log[1].ev = "started" /\ log[1].tick = 0 /\ log[1].at = 0
  /\ (pc # "L15" /\ ~ StartInterrupted) => Count("started") = 1
  /\ (sleeps # << >> \/ stdout # << >> \/ tick > 0) => Count("started") = 1

\* several iterations have run, with heartbeats and errors logged
C10_Witness ==
  /\ tick >= 3
  /\ Count("started") = 1
  /\ Count("heartbeat") >= 1
  /\ Count("error") >= 1

(* ---- C11 ---- *)
\* C11: in every step, from whatever state, a call of time.sleep at line 23
\* asks for 10 seconds and one at line 31 for 5 seconds; a sleep that
\* completes advances the clock by exactly what it asked for, an interrupted
\* one by less, and no other step moves the clock or sleeps.
C11_DurationsAreConstant ==
  [][ /\ pc = "L23" =>
           /\ Len(sleeps') = Len(sleeps) + 1
           /\ sleeps'[Len(sleeps')].secs = 10
           /\ sleeps'[Len(sleeps')].start = now
           /\ IF sleeps'[Len(sleeps')].end = "completed"
              THEN now' = now + 10
              ELSE now' >= now /\ now' < now + 10
      /\ pc = "L31" =>
           /\ Len(sleeps') = Len(sleeps) + 1
           /\ sleeps'[Len(sleeps')].secs = 5
           /\ sleeps'[Len(sleeps')].start = now
           /\ IF sleeps'[Len(sleeps')].end = "completed"
              THEN now' = now + 5
              ELSE now' >= now /\ now' < now + 5
      /\ pc \notin {"L23", "L31"} => (now' = now /\ sleeps' = sleeps)
    ]_vars

\* after three failures and a heartbeat, the third backoff has just run its
\* 5 seconds
C11_Witness ==
  /\ faults = 3
  /\ Count("heartbeat") >= 1
  /\ pc = "L23"
  /\ sleeps[Len(sleeps)].secs = 5
  /\ sleeps[Len(sleeps)].end = "completed"
  /\ now = sleeps[Len(sleeps)].start + 5

(* ---- C12 ---- *)
\* the completed sleeps that began at or after time t and before time u
CompletedBetween(t, u) ==
  {a \in DOMAIN sleeps : /\ sleeps[a].end = "completed"
                         /\ sleeps[a].start >= t
                         /\ sleeps[a].start < u}

\* the sleeps asked to last the backoff time
Backoffs == {a \in DOMAIN sleeps : sleeps[a].secs = ErrorBackoffSeconds}

\* C12: an iteration that logs "error" logs it once and logs no "heartbeat";
\* every "error" record is followed by one backoff sleep (begun once control
\* has passed line 30); and whenever a "heartbeat" follows an "error", a
\* completed backoff and then a completed full interval sleep lie between
\* them -- exactly those two, 15 seconds in all, when the heartbeat is the
\* very next record.
C12_BackoffThenFreshInterval ==
  /\ \A i \in DOMAIN log : log[i].ev = "error" =>
       \A j \in DOMAIN log :
         (j # i /\ log[j].tick = log[i].tick) => log[j].ev \notin {"error", "heartbeat"}
  /\ pc # "raised" =>
       Cardinality(Backoffs) = Count("error") - (IF pc = "L31" THEN 1 ELSE 0)
  /\ \A i \in DOMAIN log, j \in DOMAIN log :
       (i < j /\ log[i].ev = "error" /\ log[j].ev = "heartbeat") =>
         /\ log[j].tick > log[i].tick
         /\ \E a \in DOMAIN sleeps :
              /\ a + 1 \in DOMAIN sleeps
              /\ sleeps[a].secs = ErrorBackoffSeconds
              /\ sleeps[a].end = "completed"
              /\ sleeps[a].start >= log[i].at
              /\ sleeps[a + 1].secs = IntervalSeconds
              /\ sleeps[a + 1].end = "completed"
              /\ sleeps[a + 1].start = sleeps[a].start + ErrorBackoffSeconds
              /\ sleeps[a + 1].start + IntervalSeconds <= log[j].at
         /\ j = i + 1 =>
              /\ log[j].at = log[i].at + ErrorBackoffSeconds + IntervalSeconds
              /\ log[j].tick = log[i].tick + 1
              /\ Cardinality(CompletedBetween(log[i].at, log[j].at)) = 2

\* a heartbeat has directly followed an error
C12_Witness ==
  \E i \in DOMAIN log :
    /\ i + 1 \in DOMAIN log
    /\ log[i].ev = "error"
    /\ log[i + 1].ev = "heartbeat"
    /\ Cardinality(Backoffs) = 1

(* ---- C13 ---- *)
\* the sleeps asked to last the interval time, up to index a
IntervalsUpTo(a) ==
  {b \in DOMAIN sleeps : b <= a /\ sleeps[b].secs = IntervalSeconds}

\* when the a-th call of time.sleep was over
EndOf(a) ==
  IF sleeps[a].end = "completed" THEN sleeps[a].start + sleeps[a].secs
  ELSE sleeps[a].start

\* C13: the calls of time.sleep never overlap (each begins once the one
\* before is over, and one cut short by a cancellation is the last); there is
\* one interval sleep per iteration; records appear in the order of their
\* iterations and every earlier iteration has run to its one outcome; and
\* every "heartbeat" is written right after the interval sleep of its own
\* iteration ran its full 10 seconds, with no other sleep in between.
C13_TicksAreSequential ==
  /\ \A a \in DOMAIN sleeps :
       /\ EndOf(a) <= now
       /\ a + 1 \in DOMAIN sleeps =>
            /\ sleeps[a].end # KeyboardInterrupt
            /\ sleeps[a + 1].start >= EndOf(a)
  /\ Cardinality(IntervalsUpTo(Len(sleeps))) = tick
  /\ \A i \in DOMAIN log, j \in DOMAIN log :
       i < j => (log[i].tick <= log[j].tick /\ log[i].at <= log[j].at)
  /\ \A n \in 1 .. (tick - 1) :
       Cardinality({i \in OfTick(n) : log[i].ev \in {"heartbeat", "error"}}) = 1
  /\ \A j \in DOMAIN log : log[j].ev = "heartbeat" =>
       \E a \in DOMAIN sleeps :
         /\ sleeps[a].secs = IntervalSeconds
         /\ sleeps[a].end = "completed"
         /\ EndOf(a) = log[j].at
         /\ Cardinality(IntervalsUpTo(a)) = log[j].tick
         /\ a + 1 \in DOMAIN sleeps => sleeps[a + 1].start >= log[j].at
         /\ \A i \in DOMAIN log :
              (i < j /\ log[i].ev # "started") => log[i].tick < log[j].tick

\* the fourth iteration has begun after two heartbeats and a failed tick
C13_Witness ==
  /\ tick = 4
  /\ pc = "L24"
  /\ Count("heartbeat") = 2
  /\ Count("error") = 1
  /\ cancels = << >>

(* ---- C14 ---- *)
\* the events logged for iteration n
EventsOfTick(n) == {log[i].ev : i \in OfTick(n)}

\* a cancellation was delivered inside the try body
CancelledInTry ==
  /\ cancels # << >>
  /\ cancels[1].during \in {"L23", "L24"}

\* C14: what an iteration does is decided by what was raised in its try body.
\* A KeyboardInterrupt takes control to the stop handler only: the iteration
\* logs no "error" and runs no backoff, and "stopping" is what it logs on
\* return.  An error takes control to the error handler only: it was an
\* Exception and not the KeyboardInterrupt, the iteration logs "error" once
\* control has passed line 30 and never "stopping".  No iteration logs both,
\* and one whose interval sleep was cut short logs no "heartbeat".
C14_OutcomesAreExclusive ==
  /\ \A n \in 1 .. tick :
       /\ ~ ({"error", "stopping"} \subseteq EventsOfTick(n))
       /\ "error" \in EventsOfTick(n) => "heartbeat" \notin EventsOfTick(n)
  /\ \A i \in DOMAIN log :
       /\ log[i].ev = "error" => (log[i].e \in Errors /\ log[i].level = "ERROR")
       /\ log[i].ev = "stopping" =>
            /\ CancelledInTry
            /\ log[i].tick = tick
            /\ log[i].e = "none"
            /\ sleeps[Len(sleeps)].secs = IntervalSeconds
  /\ pc = "L27" =>
       /\ CancelledInTry
       /\ "error" \notin EventsOfTick(tick)
       /\ sleeps[Len(sleeps)].secs = IntervalSeconds
  /\ pc \in {"L30", "L31"} =>
       /\ cancels = << >>
       /\ caught \in Errors
       /\ Count("stopping") = 0
  /\ pc = "returned" => "stopping" \in EventsOfTick(tick)
  /\ pc # "raised" =>
       Count("error") = faults - (IF pc = "L30" THEN 1 ELSE 0)
  /\ \A a \in DOMAIN sleeps :
       (sleeps[a].secs = IntervalSeconds /\ sleeps[a].end # "completed") =>
          "heartbeat" \notin EventsOfTick(Cardinality(IntervalsUpTo(a)))

\* a run in which one iteration failed and logged "error", and a later one
\* was cancelled in its sleep and logged "stopping"
C14_Witness ==
  /\ pc = "returned"
  /\ faults = 1
  /\ Count("error") = 1
  /\ Count("stopping") = 1
  /\ sleeps[Len(sleeps)].end = KeyboardInterrupt
  /\ tick = 3

(* ---- the loop run without end ---- *)
\* simulated seconds of history kept while the loop runs on
LiveHorizon == 15

\* the loop is about to begin an iteration with more than LiveHorizon
\* seconds of history behind it
AtHorizon == pc = "L23" /\ now >= LiveHorizon

\* The clock, the iteration counter and the recorded history grow for as
\* long as the loop runs, and no statement of main reads any of them.  To
\* follow the loop through unboundedly many iterations, the observer drops
\* the history at the head of an iteration and counts time and iterations
\* from there again; the program's own state (pc, the exception in hand)
\* is untouched.
Forget ==
  /\ AtHorizon
  /\ now' = 0
  /\ tick' = 0
  /\ faults' = 0
  /\ log' = << >>
  /\ sleeps' = << >>
  /\ UNCHANGED <<pc, stdout, cancels, caught, exc>>

\* a step of main, taken while the history is within the horizon
LiveProgram == ~ AtHorizon /\ Next

LiveNext ==
  \/ LiveProgram
  \/ Forget

\* main is the only thread and each of its calls returns or raises: whenever
\* a statement can run, it eventually does
LiveSpec ==
  /\ Init
  /\ [][LiveNext]_vars
  /\ WF_vars(LiveProgram)
  /\ WF_vars(Forget)

(* ---- C15 ---- *)
\* a tick fails: an error raised in the try body is caught at line 29
FailStep == pc \in {"L23", "L24"} /\ pc' = "L30"

\* a "heartbeat" record is written
HeartbeatStep ==
  /\ Len(log') = Len(log) + 1
  /\ log'[Len(log')].ev = "heartbeat"

\* C15: in every fair run in which no cancellation is ever delivered and
\* ticks fail only finitely often, "heartbeat" records are written again and
\* again without end.
C15_HeartbeatLiveness ==
  ([](cancels = << >>) /\ <>[][~ FailStep]_vars) => []<><<HeartbeatStep>>_vars

\* a heartbeat has been logged after a tick failed and was backed off
C15_Witness ==
  /\ cancels = << >>
  /\ pc = "L23"
  /\ Count("error") >= 1
  /\ log # << >>
  /\ log[Len(log)].ev = "heartbeat"

====
